---------------------------- MODULE Spec2Model ----------------------------
(***************************************************************************)
(* Urban Explorer: the wizard of App.tsx (src/unnamed/part_000), the       *)
(* grounded-mode service generateWalkingTour (src/unnamed/part_002) and    *)
(* the structured-mode endpoint POST /api/generate-tour (src/server.ts).   *)
(*                                                                         *)
(* Three specifications share the variables:                               *)
(*   Spec          the wizard session with its asynchronous completions,   *)
(*   SpecResolver  one resolver invocation after another (the HTTP         *)
(*                 handler and generateWalkingTour),                       *)
(*   SpecRoute     getFullRouteUrl applied to bounded itineraries.         *)
(***************************************************************************)
EXTENDS Integers, Sequences, FiniteSets, TLC

VARIABLES
    step,          \* useState<Step>
    selection,     \* useState<Partial<TourRequest>>: a function on the keys present
    itinerary,     \* useState<{text, groundingChunks} | null>: <<>> is null, <<r>> is r
    error,         \* useState<string | null>
    isLocating,    \* useState(false)
    geoPending,    \* pending getCurrentPosition callbacks: <<>> or <<selection captured by the closure>>
    inFlight,      \* generateWalkingTour promises not yet settled, in order of issue
    itineraryFor,  \* history: the request whose response `itinerary` holds (<<>> if none)
    serviceCalls,  \* history: number of generateWalkingTour calls the session has issued
    geoSupported,  \* navigator.geolocation is available
    geminiApiKey,  \* process.env.GEMINI_API_KEY ("" when unset)
    apiKey,        \* process.env.API_KEY ("" when unset)
    mapsKey,       \* process.env.GOOGLE_MAPS_API_KEY: <<>> when unset, else <<its characters>>
    entry,         \* the resolver entry point invoked: "handler", "service" or "none"
    phase,         \* "idle", "awaiting" (generateContent pending) or "done"
    request,       \* the TourRequest of the invocation
    calls,         \* generateContent calls issued by the invocation
    responseText,  \* response.text of the handler's generateContent call (<<>> before it resolves)
    outcome,       \* what the invocation returned to its caller
    routeEvaluated, \* getFullRouteUrl has been evaluated for the itinerary held
    routeUrl       \* the value of that evaluation: <<>> is null, else the URL

wizardVars == <<step, selection, itinerary, error, isLocating, geoPending,
                inFlight, itineraryFor, serviceCalls>>

envVars == <<geminiApiKey, apiKey, mapsKey, geoSupported>>

resolverVars == <<entry, phase, request, calls, responseText, outcome>>

routeVars == <<routeEvaluated, routeUrl>>

vars == <<wizardVars, envVars, resolverVars, routeVars>>

-----------------------------------------------------------------------------
(* Bounds and input sets *)

MaxInFlight == 2
MaxCalls == 3

CategoryInputs == {"Food tour", "Historical"}
DurationInputs == {30, 60}
LocationInputs == {<<" ">>, <<"Paris">>}
CoordInputs == {[latitude |-> 48, longitude |-> 2]}

-----------------------------------------------------------------------------
(* Values *)

Null == "null"
None == <<>>
Some(x) == <<x>>

EmptyObject == [k \in {} |-> 0]

\* { ...obj, key: value }
Put(obj, key, value) ==
    [k \in (DOMAIN obj) \cup {key} |-> IF k = key THEN value ELSE obj[k]]

Has(obj, key) == key \in DOMAIN obj

CATEGORIES == {"Food tour", "Nature walk", "Points of interest", "Historical"}
DURATIONS == {30, 60, 90, 120}

MyCurrentLocation == <<"My Current Location">>
GeoUnsupportedMsg == "Geolocation is not supported by your browser."
GeoFailedMsg == "Unable to retrieve your location. Please enter it manually."
GenericErrorMsg == "Something went wrong while generating your tour. Please try again."
FallbackText == "Sorry, I couldn't generate a tour at this time."

IsSpace(ch) == ch = " "

RECURSIVE TrimStart(_)
TrimStart(s) ==
    IF s = <<>> THEN <<>>
    ELSE IF IsSpace(Head(s)) THEN TrimStart(Tail(s)) ELSE s

RECURSIVE TrimEnd(_)
TrimEnd(s) ==
    IF s = <<>> THEN <<>>
    ELSE IF IsSpace(s[Len(s)]) THEN TrimEnd(SubSeq(s, 1, Len(s) - 1)) ELSE s

\* String.prototype.trim
Trim(s) == TrimEnd(TrimStart(s))

RemoveAt(s, i) == SubSeq(s, 1, i - 1) \o SubSeq(s, i + 1, Len(s))

-----------------------------------------------------------------------------
(* Credentials *)

PlaceholderKey == "MY_GEMINI_API_KEY"
RealKey == "real-key"

GeminiKeyInputs == {"", PlaceholderKey, RealKey}
ApiKeyInputs == {"", RealKey}
MapsKeyInputs == {<<>>, << <<" ">> >>, << <<"K">> >>}

\* process.env.GEMINI_API_KEY || process.env.API_KEY
AiKey(gemini, api) == IF gemini # "" THEN gemini ELSE api

\* getAiClient without the placeholder comparison
GetAiClientThrows_NoPlaceholderCheck(gemini, api) == AiKey(gemini, api) = ""

\* getAiClient throws instead of returning a client
GetAiClientThrows(gemini, api) ==
    LET key == AiKey(gemini, api) IN key = "" \/ key = PlaceholderKey

\* the upstream service accepts a call only under a real credential
CredentialUsable(key) == key # "" /\ key # PlaceholderKey

-----------------------------------------------------------------------------
(* Grounding chunks and the model's grounded response *)

Chunk(hasMaps, title) == [hasMaps |-> hasMaps, title |-> title]
WebChunk == Chunk(FALSE, <<>>)
UntitledChunk == Chunk(TRUE, <<>>)

\* responses of ai.models.generateContent in grounded mode: text may be
\* empty, groundingMetadata may be missing (hasChunks = FALSE)
GroundedResponses ==
    { [text |-> "", hasChunks |-> FALSE, chunks |-> <<>>],
      [text |-> "tour", hasChunks |-> TRUE,
       chunks |-> <<Chunk(TRUE, <<"A">>), Chunk(TRUE, <<"B">>)>>] }

\* the object generateWalkingTour returns for a response
TourResult(response) ==
    [text |-> IF response.text = "" THEN FallbackText ELSE response.text,
     groundingChunks |-> IF response.hasChunks THEN response.chunks ELSE <<>>]

-----------------------------------------------------------------------------
(* JSON values of the structured response (server.ts) *)

MaxStops == 1
MaxDirections == 1

SeqsUpTo(S, n) == UNION {[1..k -> S] : k \in 0..n}

\* a coordinate is <<>> when the property is absent, else <<number>>
LatInputs == {<<>>, <<0>>, <<48>>}
LngInputs == {<<>>, <<0>>, <<2>>}
LatLngInputs == {<<>>, <<[lat |-> 48, lng |-> 2]>>}

Stop(isNull, lat, lng, imageUrl) ==
    [isNull |-> isNull, lat |-> lat, lng |-> lng, imageUrl |-> imageUrl]

Direction(isNull, fromLatLng, toLatLng, mapUrl) ==
    [isNull |-> isNull, fromLatLng |-> fromLatLng, toLatLng |-> toLatLng,
     mapUrl |-> mapUrl]

\* elements of the arrays the model may return; isNull is a JSON null element
StopInputs ==
    {Stop(TRUE, <<>>, <<>>, <<>>)}
        \cup {Stop(FALSE, a, b, <<>>) : a \in LatInputs, b \in LngInputs}

DirectionInputs ==
    {Direction(TRUE, <<>>, <<>>, <<>>)}
        \cup {Direction(FALSE, f, t, <<>>) : f \in LatLngInputs, t \in LatLngInputs}

\* the value of the property stops or directions: absent, null, a number
\* (truthy, not an array), or an array
Field(kind, items) == [kind |-> kind, items |-> items]
AbsentField == Field("absent", <<>>)
NullField == Field("null", <<>>)
NumberField == Field("number", <<>>)
ListField(items) == Field("list", items)

StopsInputs ==
    {AbsentField, NullField, NumberField}
        \cup {ListField(l) : l \in SeqsUpTo(StopInputs, MaxStops)}

DirectionsInputs ==
    {AbsentField, NullField, NumberField}
        \cup {ListField(l) : l \in SeqsUpTo(DirectionInputs, MaxDirections)}

TourNameInputs == {<<>>, <<"Old Town">>}

\* a parsed JSON value: null, a number, a string, an array or an object
JsonValue(type, tourName, stops, directions) ==
    [type |-> type, tourName |-> tourName, stops |-> stops,
     directions |-> directions]

NoJson == JsonValue("none", <<>>, AbsentField, AbsentField)

JsonInputs ==
    {JsonValue(t, <<>>, AbsentField, AbsentField) :
        t \in {"null", "number", "string", "array"}}
        \cup {JsonValue("object", n, s, d) :
                n \in TourNameInputs, s \in StopsInputs, d \in DirectionsInputs}

\* response.text: undefined, the empty string, text that is not JSON, or
\* the text of a JSON value
Text(syntax, value) == [syntax |-> syntax, value |-> value]
EmptyText == Text("empty", NoJson)

ResponseTextInputs ==
    {Text("undefined", NoJson), EmptyText, Text("garbage", NoJson)}
        \cup {Text("json", v) : v \in JsonInputs}

\* response.text || "{}"
TextOrEmpty_DefaultObject(text) ==
    IF text.syntax \in {"undefined", "empty"}
    THEN Text("json", JsonValue("object", <<>>, AbsentField, AbsentField))
    ELSE text

\* response.text || ""
TextOrEmpty(text) == IF text.syntax \in {"undefined", "empty"} THEN EmptyText ELSE text

\* JSON.parse(rawText)
JsonParse(rawText) ==
    [throws |-> rawText.syntax # "json", value |-> rawText.value]

-----------------------------------------------------------------------------
(* Rest states of the parts a specification does not exercise *)

NoRequest == [category |-> "", location |-> <<>>, duration |-> 0, hasLatLng |-> FALSE]
NoOutcome == [kind |-> "none", error |-> "", tour |-> <<>>, result |-> <<>>]

ResolverIdle ==
    /\ entry = "none"
    /\ phase = "idle"
    /\ request = NoRequest
    /\ calls = 0
    /\ responseText = <<>>
    /\ outcome = NoOutcome

RouteIdle ==
    /\ routeEvaluated = FALSE
    /\ routeUrl = <<>>

WizardIdle ==
    /\ step = "category"
    /\ selection = EmptyObject
    /\ itinerary = None
    /\ error = Null
    /\ isLocating = FALSE
    /\ geoPending = None
    /\ inFlight = <<>>
    /\ itineraryFor = None
    /\ serviceCalls = 0

-----------------------------------------------------------------------------
(* The wizard *)

WizardInit ==
    /\ WizardIdle
    /\ geoSupported \in BOOLEAN
    /\ geminiApiKey \in GeminiKeyInputs
    /\ apiKey = ""
    /\ mapsKey = <<>>
    /\ ResolverIdle
    /\ RouteIdle

handleCategorySelect(categoryId) ==
    /\ step = "category"
    /\ selection' = Put(selection, "category", categoryId)
    /\ step' = "location"
    /\ UNCHANGED <<itinerary, error, isLocating, geoPending, inFlight,
                   envVars, resolverVars, routeVars, itineraryFor, serviceCalls>>

BackToCategories ==
    /\ step = "location"
    /\ step' = "category"
    /\ UNCHANGED <<selection, itinerary, error, isLocating, geoPending, inFlight,
                   envVars, resolverVars, routeVars, itineraryFor, serviceCalls>>

handleLocationSubmit(location) ==
    /\ step = "location"
    /\ IF Trim(location) # <<>>
       THEN /\ selection' = Put(selection, "location", location)
            /\ step' = "duration"
       ELSE UNCHANGED <<selection, step>>
    /\ UNCHANGED <<itinerary, error, isLocating, geoPending, inFlight,
                   envVars, resolverVars, routeVars, itineraryFor, serviceCalls>>

useCurrentLocation ==
    /\ step = "location"
    /\ ~isLocating
    /\ IF ~geoSupported
       THEN /\ error' = GeoUnsupportedMsg
            /\ isLocating' = FALSE
            /\ UNCHANGED geoPending
       ELSE /\ error' = Null
            /\ isLocating' = TRUE
            /\ geoPending' = Some(selection)
    /\ UNCHANGED <<step, selection, itinerary, inFlight,
                   envVars, resolverVars, routeVars, itineraryFor, serviceCalls>>

\* success callback of getCurrentPosition; `selection` is the closure's
GeoSuccess(coords) ==
    /\ geoPending # None
    /\ selection' = Put(Put(geoPending[1], "location", MyCurrentLocation),
                        "latLng", coords)
    /\ isLocating' = FALSE
    /\ step' = "duration"
    /\ geoPending' = None
    /\ UNCHANGED <<itinerary, error, inFlight,
                   envVars, resolverVars, routeVars, itineraryFor, serviceCalls>>

\* error callback of getCurrentPosition
GeoError ==
    /\ geoPending # None
    /\ error' = GeoFailedMsg
    /\ isLocating' = FALSE
    /\ geoPending' = None
    /\ UNCHANGED <<step, selection, itinerary, inFlight,
                   envVars, resolverVars, routeVars, itineraryFor, serviceCalls>>

BackToLocation ==
    /\ step = "duration"
    /\ step' = "location"
    /\ UNCHANGED <<selection, itinerary, error, isLocating, geoPending, inFlight,
                   envVars, resolverVars, routeVars, itineraryFor, serviceCalls>>

\* handleDurationSelect up to its await
handleDurationSelect(duration) ==
    /\ step = "duration"
    /\ Len(inFlight) < MaxInFlight
    /\ serviceCalls < MaxCalls
    /\ LET finalRequest == Put(selection, "duration", duration) IN
         /\ selection' = finalRequest
         /\ inFlight' = Append(inFlight, finalRequest)
    /\ step' = "loading"
    /\ serviceCalls' = serviceCalls + 1
    /\ UNCHANGED <<itinerary, error, isLocating, geoPending,
                   envVars, resolverVars, routeVars, itineraryFor>>

\* the awaited promise of call i resolves
GenerationResolve(i, response) ==
    /\ i \in 1..Len(inFlight)
    /\ CredentialUsable(geminiApiKey)
    /\ itinerary' = Some(TourResult(response))
    /\ itineraryFor' = Some(inFlight[i])
    /\ step' = "result"
    /\ inFlight' = RemoveAt(inFlight, i)
    /\ UNCHANGED <<selection, error, isLocating, geoPending,
                   envVars, resolverVars, routeVars, serviceCalls>>

\* the awaited promise of call i rejects
GenerationReject(i) ==
    /\ i \in 1..Len(inFlight)
    /\ error' = GenericErrorMsg
    /\ step' = "duration"
    /\ inFlight' = RemoveAt(inFlight, i)
    /\ UNCHANGED <<selection, itinerary, isLocating, geoPending,
                   envVars, resolverVars, routeVars, itineraryFor, serviceCalls>>

reset ==
    /\ step = "result"
    /\ itinerary # None
    /\ step' = "category"
    /\ selection' = EmptyObject
    /\ itinerary' = None
    /\ itineraryFor' = None
    /\ error' = Null
    /\ UNCHANGED <<isLocating, geoPending, inFlight,
                   envVars, resolverVars, routeVars, serviceCalls>>

WizardNext ==
    \/ \E c \in CategoryInputs : handleCategorySelect(c)
    \/ BackToCategories
    \/ \E l \in LocationInputs : handleLocationSubmit(l)
    \/ useCurrentLocation
    \/ \E p \in CoordInputs : GeoSuccess(p)
    \/ GeoError
    \/ BackToLocation
    \/ \E d \in DurationInputs : handleDurationSelect(d)
    \/ \E i \in 1..MaxInFlight, r \in GroundedResponses : GenerationResolve(i, r)
    \/ \E i \in 1..MaxInFlight : GenerationReject(i)
    \/ reset


-----------------------------------------------------------------------------
(* The resolver: POST /api/generate-tour and generateWalkingTour *)

ConfigErrorMsg == "Gemini API Key is missing or invalid. Please check your AI Studio secrets."
ParseFailMsg == "Failed to parse AI response as JSON"
DefaultErrorMsg == "Failed to generate tour"

\* message of the error a failed generateContent call throws
UpstreamErrorInputs == {"", "quota exceeded"}

TourRequest(category, location, duration, hasLatLng) ==
    [category |-> category, location |-> location, duration |-> duration,
     hasLatLng |-> hasLatLng]

RequestInputs ==
    { TourRequest("Food tour", <<"Paris">>, 30, FALSE),
      TourRequest("Historical", MyCurrentLocation, 60, TRUE),
      TourRequest("Shopping", <<"Paris">>, 30, FALSE),
      TourRequest("Food tour", <<"Paris">>, 0, FALSE),
      TourRequest("Food tour", <<"Paris">>, 0 - 5, FALSE),
      TourRequest("Food tour", <<>>, 30, FALSE) }

\* JS truthiness of a coordinate and of a stops/directions property
TruthyNumber(n) == n # <<>> /\ n[1] # 0
TruthyField(f) == f.kind \in {"number", "list"}

\* reading tour.stops of null throws; assigning tour.stops on a number or a
\* string throws in a module (strict mode)
DefaultsThrow(tour) == tour.type \notin {"object", "array"}

\* the defaults without the line for directions
WithDefaults_StopsOnly(tour) ==
    [tour EXCEPT !.stops = IF TruthyField(@) THEN @ ELSE ListField(<<>>)]

\* if (!tour.stops) tour.stops = []; if (!tour.directions) tour.directions = [];
WithDefaults(tour) ==
    [tour EXCEPT !.stops = IF TruthyField(@) THEN @ ELSE ListField(<<>>),
                 !.directions = IF TruthyField(@) THEN @ ELSE ListField(<<>>)]

\* MAPS_KEY && MAPS_KEY.trim() !== ""
MapsKeyUsable(key) == key # <<>> /\ Trim(key[1]) # <<>>

\* the static-map URL templates, by their parameters
StopImageUrl(stop, key) ==
    [center |-> <<stop.lat[1], stop.lng[1]>>, zoom |-> 17,
     marker |-> <<stop.lat[1], stop.lng[1]>>, key |-> key[1]]

PathImageUrl(dir, key) ==
    [from |-> dir.fromLatLng[1], to |-> dir.toLatLng[1], key |-> key[1]]

\* { ...stop, imageUrl: stop.lat && stop.lng ? url : undefined }
EnrichStop(stop, key) ==
    [stop EXCEPT !.imageUrl = IF TruthyNumber(stop.lat) /\ TruthyNumber(stop.lng)
                              THEN <<StopImageUrl(stop, key)>> ELSE <<>>]

\* { ...dir, mapUrl: dir.fromLatLng && dir.toLatLng ? url : undefined }
EnrichDirection(dir, key) ==
    [dir EXCEPT !.mapUrl = IF dir.fromLatLng # <<>> /\ dir.toLatLng # <<>>
                           THEN <<PathImageUrl(dir, key)>> ELSE <<>>]

\* field.map(...) throws: the value is not an array, or an element is null
MapThrows(field) ==
    \/ field.kind # "list"
    \/ \E i \in 1..Len(field.items) : field.items[i].isNull

EnrichThrows(tour) == MapThrows(tour.stops) \/ MapThrows(tour.directions)

Enrich(tour, key) ==
    [tour EXCEPT
       !.stops = ListField([i \in 1..Len(@.items) |-> EnrichStop(@.items[i], key)]),
       !.directions = ListField([i \in 1..Len(@.items) |-> EnrichDirection(@.items[i], key)])]

\* res.json(tour): JSON.stringify keeps only the elements of an array, so
\* the properties set on an array body are not sent
Serialize(tour) ==
    IF tour.type = "array"
    THEN JsonValue("array", <<>>, AbsentField, AbsentField)
    ELSE tour

Outcome(kind, message, tour, result) ==
    [kind |-> kind, error |-> message, tour |-> tour, result |-> result]

\* res.status(500).json({ error: error.message || "Failed to generate tour" })
ErrorResponse(message) ==
    Outcome("error500", IF message = "" THEN DefaultErrorMsg ELSE message, <<>>, <<>>)

\* the handler from `const rawText` on: the inner try/catch and the
\* outer catch that receives what the inner one throws
HandlerRespond(text, key) ==
    LET rawText == TextOrEmpty(text)
        parsed == JsonParse(rawText)
    IN  IF parsed.throws \/ DefaultsThrow(parsed.value)
        THEN ErrorResponse(ParseFailMsg)
        ELSE LET tour == WithDefaults(parsed.value) IN
             IF MapsKeyUsable(key)
             THEN IF EnrichThrows(tour)
                  THEN ErrorResponse(ParseFailMsg)
                  ELSE Outcome("json", "", <<Serialize(Enrich(tour, key))>>, <<>>)
             ELSE Outcome("json", "", <<Serialize(tour)>>, <<>>)

ResolverInit ==
    /\ WizardIdle
    /\ RouteIdle
    /\ ResolverIdle
    /\ geoSupported = TRUE
    /\ geminiApiKey \in GeminiKeyInputs
    /\ apiKey \in ApiKeyInputs
    /\ mapsKey \in MapsKeyInputs

\* POST /api/generate-tour up to its await
HandlerStart(req) ==
    /\ phase = "idle"
    /\ entry' = "handler"
    /\ request' = req
    /\ IF GetAiClientThrows(geminiApiKey, apiKey)
       THEN /\ phase' = "done"
            /\ outcome' = ErrorResponse(ConfigErrorMsg)
            /\ UNCHANGED calls
       ELSE /\ phase' = "awaiting"
            /\ calls' = calls + 1
            /\ UNCHANGED outcome
    /\ UNCHANGED <<responseText, wizardVars, envVars, routeVars>>

\* generateWalkingTour up to its await
ServiceStart(req) ==
    /\ phase = "idle"
    /\ entry' = "service"
    /\ request' = req
    /\ phase' = "awaiting"
    /\ calls' = calls + 1
    /\ UNCHANGED <<outcome, responseText, wizardVars, envVars, routeVars>>

\* generateContent of the handler resolves
HandlerResolve(text) ==
    /\ phase = "awaiting"
    /\ entry = "handler"
    /\ responseText' = <<text>>
    /\ outcome' = HandlerRespond(text, mapsKey)
    /\ phase' = "done"
    /\ UNCHANGED <<entry, request, calls, wizardVars, envVars, routeVars>>

\* generateContent of generateWalkingTour resolves
ServiceResolve(response) ==
    /\ phase = "awaiting"
    /\ entry = "service"
    /\ CredentialUsable(geminiApiKey)
    /\ outcome' = Outcome("returned", "", <<>>, <<TourResult(response)>>)
    /\ phase' = "done"
    /\ UNCHANGED <<entry, request, calls, responseText, wizardVars, envVars, routeVars>>

\* generateContent rejects: the handler's outer catch answers 500, the
\* promise of generateWalkingTour rejects with the same error
GenerateContentReject(message) ==
    /\ phase = "awaiting"
    /\ outcome' = IF entry = "handler"
                  THEN ErrorResponse(message)
                  ELSE Outcome("rejected", message, <<>>, <<>>)
    /\ phase' = "done"
    /\ UNCHANGED <<entry, request, calls, responseText, wizardVars, envVars, routeVars>>

\* the next invocation starts from scratch
NextInvocation ==
    /\ phase = "done"
    /\ entry' = "none"
    /\ phase' = "idle"
    /\ request' = NoRequest
    /\ calls' = 0
    /\ responseText' = <<>>
    /\ outcome' = NoOutcome
    /\ UNCHANGED <<wizardVars, envVars, routeVars>>

ResolverNext ==
    \/ \E req \in RequestInputs : HandlerStart(req)
    \/ \E req \in RequestInputs : ServiceStart(req)
    \/ \E text \in ResponseTextInputs : HandlerResolve(text)
    \/ \E response \in GroundedResponses : ServiceResolve(response)
    \/ \E message \in UpstreamErrorInputs : GenerateContentReject(message)
    \/ NextInvocation

SpecResolver == ResolverInit /\ [][ResolverNext]_vars

-----------------------------------------------------------------------------
(* getFullRouteUrl (part_000:145-169).  A title is a sequence of          *)
(* characters; a URL is a sequence of lexemes: the fixed pieces of the     *)
(* template, the characters encodeURIComponent leaves alone, and its       *)
(* percent escapes.                                                        *)

MaxChunks == 4

TitleInputs ==
    { <<"A">>, <<"B">>, <<"C">>, <<"B", "|", "C">>, <<"A", " ", "&", "x", "=", "1">> }

ChunkInputs ==
    {WebChunk, UntitledChunk} \cup {Chunk(TRUE, t) : t \in TitleInputs}

Range(s) == {s[i] : i \in 1..Len(s)}

\* encodeURIComponent of one character
EncodeChar(ch) ==
    CASE ch = " " -> "%20"
      [] ch = "&" -> "%26"
      [] ch = "|" -> "%7C"
      [] ch = "=" -> "%3D"
      [] ch = "?" -> "%3F"
      [] ch = "%" -> "%25"
      [] OTHER -> ch

encodeURIComponent(str) == [i \in 1..Len(str) |-> EncodeChar(str[i])]

\* Array.prototype.join of encoded strings
RECURSIVE Join(_, _)
Join(strs, sep) ==
    IF strs = <<>> THEN <<>>
    ELSE IF Len(strs) = 1 THEN strs[1]
    ELSE strs[1] \o <<sep>> \o Join(Tail(strs), sep)

\* Array.from(new Set(array)): the first occurrence of each value, in order
RECURSIVE InsertionOrder(_)
InsertionOrder(s) ==
    IF s = <<>> THEN <<>>
    ELSE LET front == InsertionOrder(SubSeq(s, 1, Len(s) - 1))
             last == s[Len(s)]
         IN  IF last \in Range(front) THEN front ELSE Append(front, last)

\* chunk.maps && chunk.maps.title
HasMapsTitle(chunk) == chunk.hasMaps /\ chunk.title # <<>>

\* the titles without the Set
UniquePlaces_NoDedup(chunks) ==
    LET titled == SelectSeq(chunks, HasMapsTitle)
    IN  [i \in 1..Len(titled) |-> titled[i].title]

\* the `places` array of getFullRouteUrl
UniquePlaces(chunks) ==
    LET titled == SelectSeq(chunks, HasMapsTitle)
    IN  InsertionOrder([i \in 1..Len(titled) |-> titled[i].title])

SearchUrl(place) ==
    <<"https://www.google.com/maps/search/", "?", "api", "=", "1",
      "&", "query", "=">> \o encodeURIComponent(place)

\* places.slice(1) instead of places.slice(1, -1)
DirectionsUrl_WaypointsToEnd(places) ==
    LET origin == encodeURIComponent(places[1])
        destination == encodeURIComponent(places[Len(places)])
        inner == SubSeq(places, 2, Len(places))
        waypoints == IF Len(places) > 2
                     THEN Join([i \in 1..Len(inner) |-> encodeURIComponent(inner[i])], "|")
                     ELSE <<>>
    IN  <<"https://www.google.com/maps/dir/", "?", "api", "=", "1",
          "&", "origin", "=">> \o origin
        \o <<"&", "destination", "=">> \o destination
        \o (IF waypoints # <<>> THEN <<"&", "waypoints", "=">> \o waypoints ELSE <<>>)
        \o <<"&", "travelmode", "=", "walking">>

DirectionsUrl(places) ==
    LET origin == encodeURIComponent(places[1])
        destination == encodeURIComponent(places[Len(places)])
        inner == SubSeq(places, 2, Len(places) - 1)
        waypoints == IF Len(places) > 2
                     THEN Join([i \in 1..Len(inner) |-> encodeURIComponent(inner[i])], "|")
                     ELSE <<>>
    IN  <<"https://www.google.com/maps/dir/", "?", "api", "=", "1",
          "&", "origin", "=">> \o origin
        \o <<"&", "destination", "=">> \o destination
        \o (IF waypoints # <<>> THEN <<"&", "waypoints", "=">> \o waypoints ELSE <<>>)
        \o <<"&", "travelmode", "=", "walking">>

\* getFullRouteUrl for the itinerary state; <<>> is null
getFullRouteUrl(itin) ==
    IF itin = None THEN <<>>
    ELSE LET places == UniquePlaces(itin[1].groundingChunks) IN
         IF Len(places) < 2
         THEN IF Len(places) = 1 THEN SearchUrl(places[1]) ELSE <<>>
         ELSE DirectionsUrl(places)

ShownRequest ==
    Put(Put(Put(EmptyObject, "category", "Food tour"), "location", <<"Paris">>),
        "duration", 30)

\* the wizard shows an itinerary whose grounding chunks the model chose
RouteInit ==
    /\ step = "result"
    /\ selection = ShownRequest
    /\ \E chunks \in SeqsUpTo(ChunkInputs, MaxChunks) :
          itinerary = Some([text |-> "tour", groundingChunks |-> chunks])
    /\ error = Null
    /\ isLocating = FALSE
    /\ geoPending = None
    /\ inFlight = <<>>
    /\ itineraryFor = Some(ShownRequest)
    /\ serviceCalls = 1
    /\ geoSupported = TRUE
    /\ geminiApiKey = RealKey
    /\ apiKey = ""
    /\ mapsKey = <<>>
    /\ ResolverIdle
    /\ RouteIdle

\* the render of the result step evaluates getFullRouteUrl()
EvaluateRouteUrl ==
    /\ step = "result"
    /\ itinerary # None
    /\ routeUrl' = getFullRouteUrl(itinerary)
    /\ routeEvaluated' = TRUE
    /\ UNCHANGED <<wizardVars, envVars, resolverVars>>

RouteNext == EvaluateRouteUrl

SpecRoute == RouteInit /\ [][RouteNext]_vars

Init == WizardInit
Next == WizardNext
Spec == Init /\ [][Next]_vars


-----------------------------------------------------------------------------
(* Claims about the wizard, checked under Spec *)

\* the two objects agree on a key: both lack it, or both hold the same value
SameField(a, b, key) ==
    /\ Has(a, key) <=> Has(b, key)
    /\ Has(a, key) => a[key] = b[key]

\* C1: in one wizard session at most one generateWalkingTour call is in
\* flight at any time, whatever the interleaving of user actions and
\* asynchronous completions.
C1_SingleCallInFlight == Len(inFlight) <= 1

\* C2: when a generateWalkingTour call started by handleDurationSelect
\* rejects, the step becomes 'duration', the generic error message is set,
\* and the selection holds the category and location the request was
\* issued with.
C2_RejectPreservesSelection ==
    [][\A i \in 1..MaxInFlight :
          GenerationReject(i) =>
             /\ step' = "duration"
             /\ error' = GenericErrorMsg
             /\ SameField(selection', inFlight[i], "category")
             /\ SameField(selection', inFlight[i], "location")]_vars

\* C12: whenever the wizard is at step 'result', the itinerary held is
\* non-null and is the response to the request built from the selection
\* currently held (its category, location and duration).
C12_ResultMatchesSelection ==
    step = "result" =>
        /\ itinerary # None
        /\ itineraryFor # None
        /\ SameField(itineraryFor[1], selection, "category")
        /\ SameField(itineraryFor[1], selection, "location")
        /\ SameField(itineraryFor[1], selection, "duration")

\* C13: whenever the wizard is at step 'result' the error state is null.
C13_NoStaleErrorAtResult == step = "result" => error = Null

\* a generateWalkingTour promise settles
GenerationSettles ==
    \/ \E i \in 1..MaxInFlight, r \in GroundedResponses : GenerationResolve(i, r)
    \/ \E i \in 1..MaxInFlight : GenerationReject(i)

\* every outbound generation call eventually resolves or rejects
SpecSettling == Spec /\ WF_vars(GenerationSettles)

\* C14: each entry into step 'loading' is eventually followed by step
\* 'result' or step 'duration', and 'loading' is left only by the resolve
\* or the reject of a generation call.
C14_LoadingEndsByCompletion ==
    /\ (step = "loading") ~> (step \in {"result", "duration"})
    /\ [][(step = "loading" /\ step' # "loading") => GenerationSettles]_vars


-----------------------------------------------------------------------------
(* Claims about the resolver, checked under SpecResolver *)

\* the access credential the invoked entry point reads
Credential ==
    IF entry = "service" THEN geminiApiKey
    ELSE IF geminiApiKey # "" THEN geminiApiKey ELSE apiKey

CredentialMissingOrPlaceholder == Credential \in {"", PlaceholderKey}

Failed == outcome.kind \in {"error500", "rejected"}

SupportedCategory(category) == category \in CATEGORIES

InvalidRequest(req) ==
    \/ ~SupportedCategory(req.category)
    \/ req.duration <= 0
    \/ req.location = <<>>

\* C3: when the access credential is missing or equals the placeholder, a
\* tour-generation invocation fails with the configuration error and no
\* generateContent call is attempted in it.
C3_ConfigErrorBeforeCall ==
    (entry # "none" /\ CredentialMissingOrPlaceholder) =>
        /\ calls = 0
        /\ phase = "done"
        /\ outcome.kind = "error500"
        /\ outcome.error = ConfigErrorMsg

\* C4: a tour request with an unsupported category, a duration that is not
\* a positive integer, or an empty location fails and no generateContent
\* call is made for it.
C4_InvalidRequestRejected ==
    (entry # "none" /\ InvalidRequest(request)) =>
        /\ calls = 0
        /\ phase = "done"
        /\ Failed

\* C5 as stated: every invocation of the resolver performs exactly one
\* generateContent call, whatever its outcome.
C5_ExactlyOneCall == phase = "done" => calls = 1

\* C5 as amended: an invocation performs at most one generateContent call
\* and never re-issues a failed one; it performs exactly one, except that
\* the handler performs none when its credential is missing or the
\* placeholder.
C5_AtMostOneCall ==
    /\ calls <= 1
    /\ phase = "awaiting" => calls = 1
    /\ phase = "done" =>
         calls = IF entry = "handler" /\ CredentialMissingOrPlaceholder THEN 0 ELSE 1

\* a handler invocation whose single call failed upstream and was not re-issued
C5_Witness ==
    /\ entry = "handler"
    /\ phase = "done"
    /\ outcome.kind = "error500"
    /\ outcome.error = "quota exceeded"
    /\ calls = 1

\* the handler answered a generateContent response
HandlerAnswered == entry = "handler" /\ phase = "done" /\ responseText # <<>>

BodyIsJson == responseText[1].syntax = "json"

\* C8: in structured mode, when the response body is not valid JSON the
\* handler fails with the parse-failure error and returns no itinerary,
\* whether or not the body is empty.
C8_InvalidJsonFails ==
    (HandlerAnswered /\ ~BodyIsJson) =>
        /\ outcome.kind = "error500"
        /\ outcome.error = ParseFailMsg
        /\ outcome.tour = <<>>

\* the model returned no text at all and the handler reported the parse failure
C8_Witness ==
    /\ HandlerAnswered
    /\ responseText[1].syntax = "undefined"
    /\ outcome.error = ParseFailMsg

\* C9: the parse-failure error is produced only for bodies that are not
\* valid JSON; a failed model call or a missing credential is never
\* reported as a parse failure.
C9_ParseFailureOnlyForInvalidJson ==
    (entry = "handler" /\ phase = "done" /\ outcome.error = ParseFailMsg) =>
        (responseText # <<>> /\ ~BodyIsJson)


Body == responseText[1].value

LacksAList == Body.stops.kind = "absent" \/ Body.directions.kind = "absent"

AbsentOrObjects(field) ==
    \/ field.kind = "absent"
    \/ field.kind = "list" /\ \A i \in 1..Len(field.items) : ~field.items[i].isNull

\* the returned array has the elements of the parsed one, each with its
\* coordinates; only imageUrl / mapUrl may have been added
SameStops(returned, parsed) ==
    /\ returned.kind = "list"
    /\ Len(returned.items) = Len(parsed.items)
    /\ \A i \in 1..Len(parsed.items) :
          /\ returned.items[i].lat = parsed.items[i].lat
          /\ returned.items[i].lng = parsed.items[i].lng

SameDirections(returned, parsed) ==
    /\ returned.kind = "list"
    /\ Len(returned.items) = Len(parsed.items)
    /\ \A i \in 1..Len(parsed.items) :
          /\ returned.items[i].fromLatLng = parsed.items[i].fromLatLng
          /\ returned.items[i].toLatLng = parsed.items[i].toLatLng

KeyConfigured == mapsKey # <<>> /\ \E i \in 1..Len(mapsKey[1]) : mapsKey[1][i] # " "

Returned == outcome.tour[1]

\* the stop has both coordinates: every number counts, 0 included
HasCoordinates(stop) == stop.lat # <<>> /\ stop.lng # <<>>

HasEndpoints(dir) == dir.fromLatLng # <<>> /\ dir.toLatLng # <<>>

\* C11: a returned stop carries an imageUrl exactly when a map-image
\* credential is configured and the stop has both coordinates (every
\* numeric lat/lng pair counts as present), and a returned direction
\* carries a mapUrl exactly when the credential is configured and both
\* endpoint coordinate pairs are present.
C11_EnrichedExactlyWhenPresent ==
    (HandlerAnswered /\ outcome.kind = "json") =>
        /\ Returned.stops.kind = "list" =>
              \A i \in 1..Len(Returned.stops.items) :
                 LET stop == Returned.stops.items[i] IN
                 ~stop.isNull =>
                    (stop.imageUrl # <<>> <=> (KeyConfigured /\ HasCoordinates(stop)))
        /\ Returned.directions.kind = "list" =>
              \A i \in 1..Len(Returned.directions.items) :
                 LET dir == Returned.directions.items[i] IN
                 ~dir.isNull =>
                    (dir.mapUrl # <<>> <=> (KeyConfigured /\ HasEndpoints(dir)))

-----------------------------------------------------------------------------
(* Claims about getFullRouteUrl, checked under SpecRoute.  The URL is read *)
(* back the way a URL parser reads it: the query is split at "&", each     *)
(* parameter at its "=", the waypoints at "|", and escapes are decoded.    *)

RECURSIVE SplitOn(_, _)
SplitOn(s, sep) ==
    IF \A i \in 1..Len(s) : s[i] # sep THEN <<s>>
    ELSE LET i == CHOOSE k \in 1..Len(s) :
                     s[k] = sep /\ \A j \in 1..(k - 1) : s[j] # sep
         IN  <<SubSeq(s, 1, i - 1)>> \o SplitOn(SubSeq(s, i + 1, Len(s)), sep)

DecodeLexeme(lx) ==
    CASE lx = "%20" -> " "
      [] lx = "%26" -> "&"
      [] lx = "%7C" -> "|"
      [] lx = "%3D" -> "="
      [] lx = "%3F" -> "?"
      [] lx = "%25" -> "%"
      [] OTHER -> lx

Decode(lexemes) == [i \in 1..Len(lexemes) |-> DecodeLexeme(lexemes[i])]

UrlBase(url) == IF Len(url) >= 1 THEN url[1] ELSE ""

UrlParams(url) ==
    IF Len(url) < 2 \/ url[2] # "?" THEN <<>>
    ELSE LET parts == SplitOn(SubSeq(url, 3, Len(url)), "&") IN
         [i \in 1..Len(parts) |->
            [name |-> IF Len(parts[i]) >= 2 /\ parts[i][2] = "="
                      THEN parts[i][1] ELSE "",
             value |-> SubSeq(parts[i], 3, Len(parts[i]))]]

ParamNames(url) == [i \in 1..Len(UrlParams(url)) |-> UrlParams(url)[i].name]

ParamValue(url, name) ==
    LET params == UrlParams(url) IN
    IF \E i \in 1..Len(params) : params[i].name = name
    THEN params[CHOOSE i \in 1..Len(params) : params[i].name = name].value
    ELSE <<>>

WaypointsOf(url) ==
    LET parts == SplitOn(ParamValue(url, "waypoints"), "|")
    IN  [i \in 1..Len(parts) |-> Decode(parts[i])]

ShownChunks == itinerary[1].groundingChunks

\* C6: for the ordered list P of unique place titles, getFullRouteUrl
\* returns no URL when P is empty, a single-point search URL for P[1] when
\* |P| = 1, and when |P| >= 2 a directions URL with origin P[1],
\* destination the last element, the interior elements as waypoints in
\* order joined by '|' (no waypoints parameter when |P| = 2) and
\* travelmode=walking.
C6_RouteUrlShape ==
    routeEvaluated =>
      LET P == UniquePlaces(ShownChunks) IN
        /\ Len(P) = 0 => routeUrl = <<>>
        /\ Len(P) = 1 =>
             /\ UrlBase(routeUrl) = "https://www.google.com/maps/search/"
             /\ ParamNames(routeUrl) = <<"api", "query">>
             /\ Decode(ParamValue(routeUrl, "query")) = P[1]
        /\ Len(P) >= 2 =>
             /\ UrlBase(routeUrl) = "https://www.google.com/maps/dir/"
             /\ ParamNames(routeUrl) =
                  IF Len(P) = 2
                  THEN <<"api", "origin", "destination", "travelmode">>
                  ELSE <<"api", "origin", "destination", "waypoints", "travelmode">>
             /\ Decode(ParamValue(routeUrl, "origin")) = P[1]
             /\ Decode(ParamValue(routeUrl, "destination")) = P[Len(P)]
             /\ Len(P) > 2 => WaypointsOf(routeUrl) = SubSeq(P, 2, Len(P) - 1)
             /\ ParamValue(routeUrl, "travelmode") = <<"walking">>

\* four unique places, the first waypoint's title containing the separator
C6_Witness ==
    /\ routeEvaluated
    /\ UniquePlaces(ShownChunks) = << <<"A">>, <<"B", "|", "C">>, <<"C">>, <<"B">> >>
    /\ ParamValue(routeUrl, "waypoints") = <<"B", "%7C", "C", "|", "C">>

TitledAt(chunks, i) == chunks[i].hasMaps /\ chunks[i].title # <<>>

\* the position of the first chunk that carries the title
FirstIndex(chunks, title) ==
    CHOOSE i \in 1..Len(chunks) :
        /\ TitledAt(chunks, i) /\ chunks[i].title = title
        /\ \A j \in 1..(i - 1) : ~(TitledAt(chunks, j) /\ chunks[j].title = title)

\* C7: the place list used for route derivation contains each distinct
\* title of the grounding chunks exactly once, ordered by first occurrence
\* (chunks without a maps title are ignored), so a title repeated later
\* never becomes the destination: the destination is the title whose first
\* occurrence comes last.
C7_FirstOccurrenceOrder ==
    routeEvaluated =>
      LET chunks == ShownChunks
          P == UniquePlaces(chunks)
          titles == {chunks[i].title : i \in {k \in 1..Len(chunks) : TitledAt(chunks, k)}}
      IN  /\ Range(P) = titles
          /\ \A i, j \in 1..Len(P) :
                i < j => FirstIndex(chunks, P[i]) < FirstIndex(chunks, P[j])
          /\ Cardinality(titles) >= 2 =>
                \A t \in titles :
                   FirstIndex(chunks, t)
                       <= FirstIndex(chunks, Decode(ParamValue(routeUrl, "destination")))

\* titles A,B,C,B give origin A, destination C, waypoints B
C7_Witness ==
    /\ routeEvaluated
    /\ ShownChunks = <<Chunk(TRUE, <<"A">>), Chunk(TRUE, <<"B">>),
                       Chunk(TRUE, <<"C">>), Chunk(TRUE, <<"B">>)>>
    /\ routeUrl = <<"https://www.google.com/maps/dir/", "?", "api", "=", "1",
                    "&", "origin", "=", "A", "&", "destination", "=", "C",
                    "&", "waypoints", "=", "B", "&", "travelmode", "=", "walking">>

=============================================================================
